---- MODULE Spec2Model ----
(***************************************************************************)
(* RetransmittingWebSocket (src/src/RetransmittingWebSocket.ts): the       *)
(* retransmit engine, its framing, serial and acknowledgement machinery,   *)
(* its close handshake, and the transport slot it drives.                  *)
(*                                                                         *)
(* A wire message is a non-empty sequence of 32-bit words; the decoder     *)
(* reads the first word of the pending header as the type tag.  An engine  *)
(* is a record of the class's private fields plus history fields that      *)
(* record what the application and the transport observed.                 *)
(***************************************************************************)
EXTENDS Naturals, Integers, Sequences, FiniteSets, TLC

VARIABLES eng, ep, gen, chan, step, peer

vars == <<eng, ep, gen, chan, step, peer>>

Engines == {"A", "B"}

Other(e) == IF e = "A" THEN "B" ELSE "A"

(***************************************************************************)
(* Bounds of the model.                                                    *)
(***************************************************************************)
\* payloads each application passes to send()
MaxSend == 2
\* transports installed in each engine
MaxConn == 3
\* highest receive serial an adversarial peer drives the engine to
MaxSerial == 6
\* calls of close() by each application
MaxClose == 1
\* configured maxUnacknowledgedMessages (the default of 100 is out of reach)
CfgMaxUnackMessages == 1
\* configured maxUnacknowledgedBufferSizeBytes
CfgMaxUnackBytes == 7

(***************************************************************************)
(* enum ReadyState and enum RETRANSMIT_MSG_TYPE.                           *)
(***************************************************************************)
CONNECTING == 0
OPEN == 1
CLOSING == 2
CLOSED == 3

INITIAL_SERIAL == 1
DATA == 2
DATA_ACK == 3
CLOSE == 4
CLOSE_ACK == 5

BYTES_PER_ELEMENT == 4

(***************************************************************************)
(* Frames as the code builds them: new Uint32Array([tag, value]).          *)
(***************************************************************************)
InitialSerialMsg(n) == <<INITIAL_SERIAL, n>>

DataHeader == <<DATA>>

DataAckMsg(n) == <<DATA_ACK, n>>

CloseHeader == <<CLOSE>>

CloseAckMsg == <<CLOSE_ACK>>

\* new Uint32Array(receivedHeader, 0, 1)[0]
TypeId(m) == m[1]

\* new Uint32Array(receivedHeader, BYTES_PER_ELEMENT, 1)[0]
SerialOf(m) == m[2]

\* event.data.byteLength
ByteLength(m) == BYTES_PER_ELEMENT * Len(m)

\* Array.prototype.slice(start, length): a negative start counts from the end
JsSlice(q, start) ==
  LET len == Len(q)
      from == IF start < 0
                THEN (IF len + start < 0 THEN 0 ELSE len + start)
                ELSE (IF start > len THEN len ELSE start)
  IN SubSeq(q, from + 1, len)

(***************************************************************************)
(* Events handed to the application.                                       *)
(***************************************************************************)
NoEvent == [type |-> "none", code |-> 0, wasClean |-> FALSE]

\* the CloseEventLike close(code, reason) builds
LocalCloseEvent(code) == [type |-> "close", code |-> code, wasClean |-> TRUE]

\* the close event a failing transport dispatches
TransportCloseEvent == [type |-> "close", code |-> 1006, wasClean |-> FALSE]

OpenEvent == [type |-> "open", code |-> 0, wasClean |-> FALSE]

ErrorEvent == [type |-> "error", code |-> 0, wasClean |-> FALSE]

DefaultCloseCode == 1000

(***************************************************************************)
(* The engine after construction (no webSocketFactory configured).         *)
(* Fields from sentLog on are history: what send() was given, what the     *)
(* callbacks received, the first frame put on the installed transport;     *)
(* out, called, wsClose and threw collect what the running handler sends,  *)
(* hands to the message callback, and does to the transport.  attached     *)
(* says that the engine's listeners were added to the installed transport; *)
(* replaced is the readyState of the transport the installed one took the  *)
(* place of, as far as SpecSwap follows it.                                *)
(***************************************************************************)
InitEngine ==
  [ pendingAckMessages |-> <<>>,
    receiveSerial |-> 0,
    processedSerial |-> 0,
    bufferLowestSerial |-> 0,
    unacknowledgedSize |-> 0,
    unacknowledgedMessages |-> 0,
    unacknowledgedTimoutTask |-> FALSE,
    closedTimeoutTask |-> NoEvent,
    receivedHeader |-> <<>>,
    pendingCloseEvent |-> NoEvent,
    pendingErrorEvent |-> FALSE,
    closeAcknowledged |-> "unset",
    readyState |-> CONNECTING,
    factory |-> FALSE,
    reconnectTasks |-> 0,
    closeCalls |-> 0,
    sentLog |-> <<>>,
    appended |-> 0,
    delivered |-> <<>>,
    events |-> <<>>,
    out |-> <<>>,
    called |-> <<>>,
    first |-> <<>>,
    wsClose |-> FALSE,
    threw |-> FALSE,
    attached |-> FALSE,
    replaced |-> "NONE" ]

\* between handlers: nothing emitted, nothing thrown
Begin(s) == [s EXCEPT !.out = <<>>, !.called = <<>>, !.wsClose = FALSE, !.threw = FALSE]

\* this.ws.send(m)
WsSend(s, m) ==
  [s EXCEPT !.out = Append(@, m),
            !.first = IF @ = <<>> THEN m ELSE @]

\* this.pendingAckMessages.push(m)
Push(s, m) ==
  [s EXCEPT !.pendingAckMessages = Append(@, m), !.appended = @ + 1]

\* a callback of the application: onopen/onerror/onclose and the listeners
Dispatch(s, ev) == [s EXCEPT !.events = Append(@, ev)]

Throw(s) == [s EXCEPT !.threw = TRUE]

(***************************************************************************)
(* Timers.  A task field holds what setTimeout captured, or nothing.       *)
(***************************************************************************)
cancelClosedTimeoutTask(s) == [s EXCEPT !.closedTimeoutTask = NoEvent]

ensureClosedTimeoutTask(s, event) ==
  IF s.readyState = CLOSING \/ s.readyState = CLOSED \/ s.closedTimeoutTask # NoEvent
    THEN s
    ELSE [s EXCEPT !.closedTimeoutTask = event]

cancelUnacknowledgedTimoutTask(s) == [s EXCEPT !.unacknowledgedTimoutTask = FALSE]

ensureUnacknowledgedTimoutTask(s) == [s EXCEPT !.unacknowledgedTimoutTask = TRUE]

\* w is the readyState of the installed transport, "NONE" when this.ws is undefined
sendAck(s, w) ==
  IF w = "OPEN"
    THEN cancelUnacknowledgedTimoutTask(
           [WsSend(s, DataAckMsg(s.processedSerial))
              EXCEPT !.unacknowledgedSize = 0, !.unacknowledgedMessages = 0])
    ELSE s

(***************************************************************************)
(* Close machinery.                                                        *)
(***************************************************************************)
\* this.ws.removeEventListener is handed a fresh bind() of each handler,
\* which is none of the functions that were added: nothing is removed
removeInternalWebSocketListeners(s) == s

closing(s) == cancelClosedTimeoutTask([s EXCEPT !.readyState = CLOSING])

closeInternal(s, event) ==
  IF s.readyState = CLOSED THEN s
  ELSE IF s.readyState # CLOSING THEN Throw(s)
  ELSE LET s1 == [cancelClosedTimeoutTask(s) EXCEPT !.readyState = CLOSED]
           s2 == IF s1.pendingErrorEvent THEN Dispatch(s1, ErrorEvent) ELSE s1
       IN removeInternalWebSocketListeners(Dispatch(s2, event))

\* a close() that enters CLOSING before it schedules the closed timer
closeEnteringClosingFirst(s, w, code) ==
  IF s.readyState = CLOSED \/ s.readyState = CLOSED THEN s
  ELSE LET ev == LocalCloseEvent(code)
           s1 == [s EXCEPT !.pendingCloseEvent = ev, !.closeAcknowledged = "false",
                           !.readyState = CLOSING]
           s2 == Push(s1, CloseHeader)
           s3 == IF w = "OPEN" THEN WsSend(s2, CloseHeader) ELSE s2
           s4 == ensureClosedTimeoutTask(s3, ev)
       IN [s4 EXCEPT !.closeCalls = @ + 1]

\* close(code, reason): the guard of line 203 tests CLOSED twice
close(s, w, code) ==
  IF s.readyState = CLOSED \/ s.readyState = CLOSED THEN s
  ELSE LET ev == LocalCloseEvent(code)
           s1 == [s EXCEPT !.pendingCloseEvent = ev, !.closeAcknowledged = "false"]
           s2 == Push(s1, CloseHeader)
           s3 == IF w = "OPEN" THEN WsSend(s2, CloseHeader) ELSE s2
           s4 == ensureClosedTimeoutTask(s3, ev)
       IN [s4 EXCEPT !.readyState = CLOSING, !.closeCalls = @ + 1]

send(s, w, dataBody) ==
  LET s1 == Push(Push(s, DataHeader), dataBody)
      s2 == [s1 EXCEPT !.sentLog = Append(@, dataBody)]
  IN IF w = "OPEN" THEN WsSend(WsSend(s2, DataHeader), dataBody) ELSE s2

(***************************************************************************)
(* Transport slot.                                                         *)
(***************************************************************************)
\* a replay loop that forgets the handshake
ReplayWithoutHandshake(s) ==
  LET F[i \in 0..Len(s.pendingAckMessages)] ==
        IF i = 0 THEN s
        ELSE WsSend(F[i - 1], s.pendingAckMessages[i])
  IN F[Len(s.pendingAckMessages)]

\* the replay loop of the open handler
Replay(s) ==
  LET F[i \in 0..Len(s.pendingAckMessages)] ==
        IF i = 0 THEN WsSend(s, InitialSerialMsg(s.bufferLowestSerial))
        ELSE WsSend(F[i - 1], s.pendingAckMessages[i])
  IN F[Len(s.pendingAckMessages)]

\* an open handler that cancels the closed timer in every readyState
handleInternalWebSocketOpenCancellingAlways(s, w) ==
  IF w = "NONE" THEN Throw(s)
  ELSE LET s1 == cancelClosedTimeoutTask(s)
           s2 == IF w = "OPEN" THEN Replay(s1) ELSE s1
       IN IF s2.readyState = CONNECTING
            THEN Dispatch([s2 EXCEPT !.pendingErrorEvent = FALSE, !.readyState = OPEN],
                          OpenEvent)
            ELSE s2

\* an open handler that reopens the engine from any state but OPEN
handleInternalWebSocketOpenReopening(s, w) ==
  IF w = "NONE" THEN Throw(s)
  ELSE LET s1 == IF s.readyState # CLOSING THEN cancelClosedTimeoutTask(s) ELSE s
           s2 == IF w = "OPEN" THEN Replay(s1) ELSE s1
       IN IF s2.readyState # OPEN
            THEN Dispatch([s2 EXCEPT !.pendingErrorEvent = FALSE, !.readyState = OPEN],
                          OpenEvent)
            ELSE s2

\* an open handler that notifies the application of every open
handleInternalWebSocketOpenNotifyingAlways(s, w) ==
  IF w = "NONE" THEN Throw(s)
  ELSE LET s1 == IF s.readyState # CLOSING THEN cancelClosedTimeoutTask(s) ELSE s
           s2 == IF w = "OPEN" THEN Replay(s1) ELSE s1
           s3 == IF s2.readyState = CONNECTING
                   THEN [s2 EXCEPT !.pendingErrorEvent = FALSE, !.readyState = OPEN]
                   ELSE s2
       IN Dispatch(s3, OpenEvent)

handleInternalWebSocketOpen(s, w) ==
  IF w = "NONE" THEN Throw(s)
  ELSE LET s1 == IF s.readyState # CLOSING THEN cancelClosedTimeoutTask(s) ELSE s
           s2 == IF w = "OPEN" THEN Replay(s1) ELSE s1
       IN IF s2.readyState = CONNECTING
            THEN Dispatch([s2 EXCEPT !.pendingErrorEvent = FALSE, !.readyState = OPEN],
                          OpenEvent)
            ELSE s2

\* this.ws.addEventListener for the four handlers
addInternalWebSocketListeners(s) == [s EXCEPT !.attached = TRUE]

\* useWebSocket(webSocket), webSocket.readyState = w
useWebSocket(s, w) ==
  LET s1 == [removeInternalWebSocketListeners(s) EXCEPT !.first = <<>>, !.attached = FALSE]
  IN IF (s1.readyState = CONNECTING \/ s1.readyState = OPEN) /\ w = "OPEN"
       THEN addInternalWebSocketListeners(handleInternalWebSocketOpen(s1, w))
     ELSE IF w = "CLOSED" \/ w = "CLOSING" THEN Throw(s1)
     ELSE addInternalWebSocketListeners(s1)

\* an error handler that also reports the error at once
handleInternalWebSocketErrorNotifying(s) ==
  Dispatch([s EXCEPT !.pendingErrorEvent = TRUE], ErrorEvent)

handleInternalWebSocketError(s) == [s EXCEPT !.pendingErrorEvent = TRUE]

\* a close handler that treats every transport close as the end of the engine
handleInternalWebSocketCloseAsFinal(s, event) ==
  IF s.readyState = CLOSED THEN s
  ELSE closeInternal([s EXCEPT !.readyState = CLOSING], event)

handleInternalWebSocketClose(s, event) ==
  IF s.readyState = CONNECTING \/ s.readyState = OPEN \/ s.closeAcknowledged = "false"
    THEN ensureClosedTimeoutTask(
           IF s.factory THEN [s EXCEPT !.reconnectTasks = @ + 1] ELSE s, event)
  ELSE IF s.readyState = CLOSING THEN closeInternal(s, event)
  ELSE s

\* a timer callback that calls closeInternal in the readyState it finds
closedTimeoutCallbackKeepingReadyState(s) ==
  LET event == s.closedTimeoutTask
  IN closeInternal([s EXCEPT !.closedTimeoutTask = NoEvent], event)

\* the callback ensureClosedTimeoutTask schedules
closedTimeoutCallback(s) ==
  LET event == s.closedTimeoutTask
  IN closeInternal([s EXCEPT !.closedTimeoutTask = NoEvent, !.readyState = CLOSING], event)

\* the callback ensureUnacknowledgedTimoutTask schedules
unacknowledgedTimeoutCallback(s, w) ==
  sendAck([s EXCEPT !.unacknowledgedTimoutTask = FALSE], w)

(***************************************************************************)
(* handleInternalWebSocketMessage, one operator for each tag it decodes.   *)
(* s already holds the header the message is decoded under; processData    *)
(* says that the message is the follow-up of a header received earlier.    *)
(***************************************************************************)
\* a header too short for the u32 read at offset 4 makes the typed-array view throw
HasSerial(m) == Len(m) >= 2

\* a handshake handler that also pulls processedSerial down to the new serial
onInitialSerialClamping(s) ==
  IF ~HasSerial(s.receivedHeader) THEN Throw(s)
  ELSE [s EXCEPT !.receiveSerial = SerialOf(s.receivedHeader),
                 !.processedSerial = IF @ > SerialOf(s.receivedHeader)
                                       THEN SerialOf(s.receivedHeader) ELSE @,
                 !.receivedHeader = <<>>]

onInitialSerial(s) ==
  IF ~HasSerial(s.receivedHeader) THEN Throw(s)
  ELSE [s EXCEPT !.receiveSerial = SerialOf(s.receivedHeader), !.receivedHeader = <<>>]

\* a slice that drops one entry more than was acknowledged
AckSliceOffByOne(pending, lowest, sendUntil) == JsSlice(pending, sendUntil - lowest + 1)

\* pendingAckMessages.slice(sendUntil - bufferLowestSerial, length)
AckSlice(pending, lowest, sendUntil) == JsSlice(pending, sendUntil - lowest)

onDataAck(s) ==
  IF ~HasSerial(s.receivedHeader) THEN Throw(s)
  ELSE LET sendUntil == SerialOf(s.receivedHeader)
       IN [s EXCEPT !.pendingAckMessages = AckSlice(@, s.bufferLowestSerial, sendUntil),
                    !.bufferLowestSerial = sendUntil,
                    !.receivedHeader = <<>>]

\* a CLOSE_ACK branch that leaves the transport open
onCloseAckWithoutWsClose(s, w) ==
  LET s1 == [s EXCEPT !.receiveSerial = @ + 1, !.closeAcknowledged = "true"]
  IN IF s1.pendingCloseEvent # NoEvent
       THEN LET s2 == closeInternal(s1, s1.pendingCloseEvent)
            IN IF s2.threw THEN s2 ELSE [s2 EXCEPT !.receivedHeader = <<>>]
       ELSE Throw(s1)

\* a CLOSE_ACK branch that tolerates an acknowledgement nobody waits for
onCloseAckTolerant(s, w) ==
  LET s1 == [s EXCEPT !.receiveSerial = @ + 1, !.closeAcknowledged = "true"]
  IN IF s1.pendingCloseEvent # NoEvent
       THEN LET s2 == closeInternal(s1, s1.pendingCloseEvent)
            IN IF s2.threw THEN s2
               ELSE [s2 EXCEPT !.wsClose = (w # "NONE"), !.receivedHeader = <<>>]
       ELSE [s1 EXCEPT !.receivedHeader = <<>>]

onCloseAck(s, w) ==
  LET s1 == [s EXCEPT !.receiveSerial = @ + 1, !.closeAcknowledged = "true"]
  IN IF s1.pendingCloseEvent # NoEvent
       THEN LET s2 == closeInternal(s1, s1.pendingCloseEvent)
            IN IF s2.threw THEN s2
               ELSE [s2 EXCEPT !.wsClose = (w # "NONE"), !.receivedHeader = <<>>]
       ELSE Throw(s1)

onClose(s, w) ==
  LET s1 == Push([s EXCEPT !.receiveSerial = @ + 1], CloseAckMsg)
      s2 == IF w = "OPEN" THEN WsSend(s1, CloseAckMsg) ELSE s1
  IN [closing(s2) EXCEPT !.receivedHeader = <<>>]

\* a delivery decision that ignores processedSerial
DeliverableAlways(s) == TRUE

\* the delivery decision of a completed DATA frame
Deliverable(s) == s.receiveSerial > s.processedSerial

\* onmessage and the message listeners
DeliverMessage(s, m) ==
  [s EXCEPT !.delivered = Append(@, m), !.called = Append(@, m)]

\* thresholds that are reached rather than exceeded
OverThresholdInclusive(s) ==
  \/ s.unacknowledgedSize >= CfgMaxUnackBytes
  \/ s.unacknowledgedMessages >= CfgMaxUnackMessages

\* the acknowledgement thresholds
OverThreshold(s) ==
  \/ s.unacknowledgedSize > CfgMaxUnackBytes
  \/ s.unacknowledgedMessages > CfgMaxUnackMessages

\* a DATA branch that calls the message callbacks in every readyState
onDataInAnyReadyState(s, w, m, processData) ==
  LET s1 == [s EXCEPT !.receiveSerial = @ + 1]
  IN IF ~processData THEN s1
     ELSE LET s2 == IF Deliverable(s1)
                      THEN [DeliverMessage(s1, m) EXCEPT !.processedSerial = s1.receiveSerial]
                      ELSE s1
              s3 == [s2 EXCEPT !.unacknowledgedSize = @ + ByteLength(m),
                               !.unacknowledgedMessages = @ + 1]
              s4 == ensureUnacknowledgedTimoutTask(s3)
              s5 == IF OverThreshold(s4) THEN sendAck(s4, w) ELSE s4
          IN [s5 EXCEPT !.receivedHeader = <<>>]

onData(s, w, m, processData) ==
  LET s1 == [s EXCEPT !.receiveSerial = @ + 1]
  IN IF ~processData THEN s1
     ELSE LET s2 == IF Deliverable(s1)
                      THEN [(IF s1.readyState = OPEN THEN DeliverMessage(s1, m) ELSE s1)
                              EXCEPT !.processedSerial = s1.receiveSerial]
                      ELSE s1
              s3 == [s2 EXCEPT !.unacknowledgedSize = @ + ByteLength(m),
                               !.unacknowledgedMessages = @ + 1]
              s4 == ensureUnacknowledgedTimoutTask(s3)
              s5 == IF OverThreshold(s4) THEN sendAck(s4, w) ELSE s4
          IN [s5 EXCEPT !.receivedHeader = <<>>]

\* a decoder that reads the tag of every message, pending header or not
handleInternalWebSocketMessageSniffing(s, w, m) ==
  LET processData == s.receivedHeader # <<>>
                       /\ TypeId(m) \notin {INITIAL_SERIAL, DATA_ACK, CLOSE, CLOSE_ACK}
      s0 == IF processData THEN s ELSE [s EXCEPT !.receivedHeader = m]
      typeId == TypeId(s0.receivedHeader)
  IN IF typeId = INITIAL_SERIAL THEN onInitialSerial(s0)
     ELSE IF typeId = DATA_ACK THEN onDataAck(s0)
     ELSE IF typeId = CLOSE_ACK THEN onCloseAck(s0, w)
     ELSE IF typeId = CLOSE THEN onClose(s0, w)
     ELSE IF typeId = DATA THEN onData(s0, w, m, processData)
     ELSE s0

handleInternalWebSocketMessage(s, w, m) ==
  LET processData == s.receivedHeader # <<>>
      s0 == IF processData THEN s ELSE [s EXCEPT !.receivedHeader = m]
      typeId == TypeId(s0.receivedHeader)
  IN IF typeId = INITIAL_SERIAL THEN onInitialSerial(s0)
     ELSE IF typeId = DATA_ACK THEN onDataAck(s0)
     ELSE IF typeId = CLOSE_ACK THEN onCloseAck(s0, w)
     ELSE IF typeId = CLOSE THEN onClose(s0, w)
     ELSE IF typeId = DATA THEN onData(s0, w, m, processData)
     ELSE s0

(***************************************************************************)
(* The system: two engines, each holding one endpoint of the current       *)
(* link.  ep[e] is the readyState of the transport installed in e, gen[e]  *)
(* the link it belongs to, chan[e] the messages in flight towards e, and   *)
(* step describes the handler that ran last.                               *)
(***************************************************************************)
Payload(e, k) == <<(IF e = "A" THEN 10 ELSE 20) + k>>

\* the remote sender on a fresh transport: no handshake sent, no frame begun
PeerInit == [synced |-> FALSE, hdr |-> FALSE, pos |-> 0]

NoStep ==
  [e |-> "A", name |-> "init", rx |-> <<>>, out |-> <<>>, called |-> <<>>, threw |-> FALSE]

Init ==
  /\ eng = [e \in Engines |-> InitEngine]
  /\ ep = [e \in Engines |-> "NONE"]
  /\ gen = [e \in Engines |-> 0]
  /\ chan = [e \in Engines |-> <<>>]
  /\ step = NoStep
  /\ peer = PeerInit

\* handler `name` of engine e ran on message rx and left the engine as s
Commit(e, name, rx, s) ==
  /\ eng' = [eng EXCEPT ![e] = Begin(s)]
  /\ step' = [e |-> e, name |-> name, rx |-> rx, out |-> s.out, called |-> s.called,
               threw |-> s.threw]

\* ws.close(code, reason) takes the endpoint to CLOSING
AfterWsClose(w, s) == IF s.wsClose /\ w \in {"CONNECTING", "OPEN"} THEN "CLOSING" ELSE w

\* what e puts on its transport reaches the link unless the peer's end is gone
Reaches(e) ==
  \/ gen[Other(e)] < gen'[e]
  \/ gen[Other(e)] = gen'[e] /\ ep[Other(e)] \in {"CONNECTING", "OPEN", "CLOSING"}

Wire(e) ==
  chan' = [chan EXCEPT ![Other(e)] = IF Reaches(e) THEN @ \o step'.out ELSE @]

EngSend(e) ==
  /\ Len(eng[e].sentLog) < MaxSend
  /\ Commit(e, "send", <<>>, send(eng[e], ep[e], Payload(e, Len(eng[e].sentLog))))
  /\ UNCHANGED <<ep, gen>>

EngClose(e) ==
  /\ eng[e].closeCalls < MaxClose
  /\ Commit(e, "close", <<>>, close(eng[e], ep[e], DefaultCloseCode))
  /\ UNCHANGED <<ep, gen>>

EngOpen(e) ==
  /\ eng[e].attached
  /\ ep[e] = "CONNECTING"
  /\ ep' = [ep EXCEPT ![e] = "OPEN"]
  /\ Commit(e, "open", <<>>, handleInternalWebSocketOpen(eng[e], "OPEN"))
  /\ UNCHANGED gen

EngTransportClose(e) ==
  /\ eng[e].attached
  /\ ep[e] \in {"CONNECTING", "OPEN", "CLOSING"}
  /\ ep' = [ep EXCEPT ![e] = "CLOSED"]
  /\ Commit(e, "transportClose", <<>>, handleInternalWebSocketClose(eng[e], TransportCloseEvent))
  /\ UNCHANGED gen

EngError(e) ==
  /\ eng[e].attached
  /\ ep[e] \in {"CONNECTING", "OPEN", "CLOSING"}
  /\ ~eng[e].pendingErrorEvent
  /\ Commit(e, "error", <<>>, handleInternalWebSocketError(eng[e]))
  /\ UNCHANGED <<ep, gen>>

EngMessage(e, m) ==
  /\ eng[e].attached
  /\ ep[e] \in {"OPEN", "CLOSING"}
  /\ LET s == handleInternalWebSocketMessage(eng[e], ep[e], m)
     IN /\ Commit(e, "message", m, s)
        /\ ep' = [ep EXCEPT ![e] = AfterWsClose(@, s)]
  /\ UNCHANGED gen

EngUnackTimeout(e) ==
  /\ eng[e].unacknowledgedTimoutTask
  /\ Commit(e, "unackTimeout", <<>>, unacknowledgedTimeoutCallback(eng[e], ep[e]))
  /\ UNCHANGED <<ep, gen>>

EngClosedTimeout(e) ==
  /\ eng[e].closedTimeoutTask # NoEvent
  /\ Commit(e, "closedTimeout", <<>>, closedTimeoutCallback(eng[e]))
  /\ UNCHANGED <<ep, gen>>

EngUse(e, w) ==
  /\ ep' = [ep EXCEPT ![e] = w]
  /\ Commit(e, "useWebSocket", <<>>, useWebSocket(eng[e], w))

\* the replaced transport is live and carries the engine's listeners
Live(e) == eng[e].attached /\ ep[e] \in {"CONNECTING", "OPEN"}

\* useWebSocket that keeps track of the transport it replaces
EngSwap(e, w) ==
  /\ ep' = [ep EXCEPT ![e] = w]
  /\ Commit(e, "useWebSocket", <<>>,
            [useWebSocket(eng[e], w) EXCEPT !.replaced = IF Live(e) THEN ep[e] ELSE @])

\* events of the replaced transport; the handlers act on this.ws, the
\* installed transport
EngStaleOpen(e) ==
  /\ eng[e].replaced = "CONNECTING"
  /\ Commit(e, "staleOpen", <<>>,
            [handleInternalWebSocketOpen(eng[e], ep[e]) EXCEPT !.replaced = "OPEN"])
  /\ UNCHANGED <<ep, gen>>

EngStaleMessage(e, m) ==
  /\ eng[e].replaced = "OPEN"
  /\ LET s == handleInternalWebSocketMessage(eng[e], ep[e], m)
     IN /\ Commit(e, "staleMessage", m, s)
        /\ ep' = [ep EXCEPT ![e] = AfterWsClose(@, s)]
  /\ UNCHANGED gen

EngStaleClose(e) ==
  /\ eng[e].replaced \in {"CONNECTING", "OPEN"}
  /\ Commit(e, "staleClose", <<>>,
            [handleInternalWebSocketClose(eng[e], TransportCloseEvent)
               EXCEPT !.replaced = "CLOSED"])
  /\ UNCHANGED <<ep, gen>>

EngStaleError(e) ==
  /\ eng[e].replaced \in {"CONNECTING", "OPEN"}
  /\ ~eng[e].pendingErrorEvent
  /\ Commit(e, "staleError", <<>>, handleInternalWebSocketError(eng[e]))
  /\ UNCHANGED <<ep, gen>>

(***************************************************************************)
(* Spec: engines A and B over a link that may fail at either end at any    *)
(* time and be replaced once both ends are gone.  An endpoint is installed *)
(* CONNECTING (a client socket, which opens later) or already OPEN (an     *)
(* accepted server socket).  A's application sends; neither application   *)
(* calls close() and no closed-timer fires, so B stays open for the whole  *)
(* run, which is the case the delivery properties are about.               *)
(***************************************************************************)
Send(e) == EngSend(e) /\ Wire(e) /\ UNCHANGED peer

Close(e) == EngClose(e) /\ Wire(e) /\ UNCHANGED peer

Install(e, w) ==
  /\ ep[e] \in {"NONE", "CLOSED"}
  /\ \/ gen[e] < gen[Other(e)]
        /\ gen' = [gen EXCEPT ![e] = gen[Other(e)]]
        /\ EngUse(e, w)
        /\ Wire(e)
     \/ gen[e] = gen[Other(e)]
        /\ ep[Other(e)] \in {"NONE", "CLOSED"}
        /\ gen[e] < MaxConn
        /\ gen' = [gen EXCEPT ![e] = @ + 1]
        /\ EngUse(e, w)
        /\ chan' = [chan EXCEPT ![e] = <<>>, ![Other(e)] = step'.out]
  /\ UNCHANGED peer

TransportOpen(e) == EngOpen(e) /\ Wire(e) /\ UNCHANGED peer

\* the endpoint fails: what was in flight towards it is lost
TransportClose(e) ==
  /\ EngTransportClose(e)
  /\ chan' = [chan EXCEPT ![e] = <<>>]
  /\ UNCHANGED peer

TransportError(e) == EngError(e) /\ UNCHANGED <<chan, peer>>

Deliver(e) ==
  /\ chan[e] # <<>>
  /\ EngMessage(e, Head(chan[e]))
  /\ chan' = [chan EXCEPT ![e] = Tail(@),
                          ![Other(e)] = IF Reaches(e) THEN @ \o step'.out ELSE @]
  /\ UNCHANGED peer

UnackTimeout(e) == EngUnackTimeout(e) /\ Wire(e) /\ UNCHANGED peer

ClosedTimeout(e) == EngClosedTimeout(e) /\ UNCHANGED <<chan, peer>>

Next ==
  \E e \in Engines :
    \/ e = "A" /\ Send(e)
    \/ \E w \in {"CONNECTING", "OPEN"} : Install(e, w)
    \/ TransportOpen(e)
    \/ TransportClose(e)
    \/ Deliver(e)
    \/ UnackTimeout(e)

Spec == Init /\ [][Next]_vars

(***************************************************************************)
(* SpecLink: Spec in which A's application also calls close(), at any      *)
(* time, and goes on calling send() afterwards, which send() accepts in    *)
(* every readyState.  The runs are those in which the closed timer has     *)
(* not fired yet.                                                          *)
(***************************************************************************)
NextLink ==
  \/ Next
  \/ Close("A")

SpecLink == Init /\ [][NextLink]_vars

(***************************************************************************)
(* One engine, A, against an arbitrary application and a remote sender.    *)
(* A transport in any state may be installed at any time and may fail at   *)
(* any time.  SpecSender exercises the outbound side: send, close, and     *)
(* acknowledgements with any serial arriving.  SpecReceiver exercises the  *)
(* inbound side: on each transport the remote sender emits its handshake   *)
(* and then whole frames, as the engine's own send side does, and the      *)
(* transport may fail between any two messages.                            *)
(***************************************************************************)
AckMsgs == {DataAckMsg(n) : n \in 0..MaxSerial}

\* the bufferLowestSerial the remote handshake announces: nothing
\* acknowledged yet, or its first DATA frame acknowledged
PeerLowest == {0, 2}

\* the payload of the remote sender's DATA frames
PeerPayload == <<7>>

\* the tag the message will be decoded under
EffectiveType(s, m) == IF s.receivedHeader # <<>> THEN TypeId(s.receivedHeader) ELSE TypeId(m)

\* the counters the message would advance stay within the bounds
Bounded(s, m) ==
  /\ EffectiveType(s, m) \in {DATA, CLOSE, CLOSE_ACK} => s.receiveSerial < MaxSerial
  /\ EffectiveType(s, m) = CLOSE => s.appended < MaxClose + 1

OneSend == EngSend("A") /\ UNCHANGED <<chan, peer>>

OneClose == EngClose("A") /\ UNCHANGED <<chan, peer>>

OneUse(w) == EngUse("A", w) /\ peer' = PeerInit /\ UNCHANGED <<gen, chan>>

OneOpen == EngOpen("A") /\ UNCHANGED <<chan, peer>>

OneTransportClose == EngTransportClose("A") /\ UNCHANGED <<chan, peer>>

OneAck(m) == EngMessage("A", m) /\ UNCHANGED <<chan, peer>>

OneFrame(m) == Bounded(eng["A"], m) /\ EngMessage("A", m) /\ UNCHANGED chan

\* the remote open handler: INITIAL_SERIAL first on the transport
PeerHandshake(n) ==
  /\ ~peer.synced
  /\ OneFrame(InitialSerialMsg(n))
  /\ peer' = [synced |-> TRUE, hdr |-> FALSE, pos |-> n]

\* the remote send(): the header message, then the body message
PeerDataHeader ==
  /\ peer.synced /\ ~peer.hdr /\ peer.pos + 2 <= MaxSerial
  /\ OneFrame(DataHeader)
  /\ peer' = [peer EXCEPT !.hdr = TRUE, !.pos = @ + 1]

PeerDataBody ==
  /\ peer.synced /\ peer.hdr
  /\ OneFrame(PeerPayload)
  /\ peer' = [peer EXCEPT !.hdr = FALSE, !.pos = @ + 1]

OneUnackTimeout == EngUnackTimeout("A") /\ UNCHANGED <<chan, peer>>

OneClosedTimeout == EngClosedTimeout("A") /\ UNCHANGED <<chan, peer>>

NextSender ==
  \/ OneSend
  \/ OneClose
  \/ \E w \in {"CONNECTING", "OPEN", "CLOSED"} : OneUse(w)
  \/ OneOpen
  \/ OneTransportClose
  \/ \E m \in AckMsgs : OneAck(m)
  \/ OneClosedTimeout

SpecSender == Init /\ [][NextSender]_vars

NextReceiver ==
  \/ OneClose
  \/ \E w \in {"CONNECTING", "OPEN"} : OneUse(w)
  \/ OneOpen
  \/ OneTransportClose
  \/ \E n \in PeerLowest : PeerHandshake(n)
  \/ PeerDataHeader
  \/ PeerDataBody
  \/ OneUnackTimeout
  \/ OneClosedTimeout

SpecReceiver == Init /\ [][NextReceiver]_vars

\* SpecReceiver in which an armed acknowledgement timer does fire
SpecReceiverFair == SpecReceiver /\ WF_vars(OneUnackTimeout)

(***************************************************************************)
(* SpecClose: one engine, A, and the close handshake.  The application     *)
(* calls close(), transports are installed, open, fail and report errors,  *)
(* the remote end sends CLOSE and CLOSE_ACK at any time, and the closed    *)
(* timer fires whenever it is armed.  SpecCloseFair adds that an armed     *)
(* closed timer does fire: setTimeout callbacks are eventually run.        *)
(***************************************************************************)
OneError == EngError("A") /\ UNCHANGED <<chan, peer>>

\* the remote close()
PeerClose == OneFrame(CloseHeader) /\ UNCHANGED peer

\* the remote answer to a CLOSE
PeerCloseAck == OneFrame(CloseAckMsg) /\ UNCHANGED peer

NextClose ==
  \/ OneClose
  \/ \E w \in {"CONNECTING", "OPEN"} : OneUse(w)
  \/ OneOpen
  \/ OneTransportClose
  \/ OneError
  \/ PeerClose
  \/ PeerCloseAck
  \/ OneClosedTimeout

SpecClose == Init /\ [][NextClose]_vars

SpecCloseFair == SpecClose /\ WF_vars(OneClosedTimeout)

(***************************************************************************)
(* SpecSwap: one engine, A, and the transport slot.  The application       *)
(* installs transports in any readyState, also while the installed one is  *)
(* still live; the replaced transport goes on raising its events, and the  *)
(* remote end sends CLOSE and CLOSE_ACK on either.                         *)
(***************************************************************************)
OneSwap(w) == EngSwap("A", w) /\ peer' = PeerInit /\ UNCHANGED <<gen, chan>>

StaleOpen == EngStaleOpen("A") /\ UNCHANGED <<chan, peer>>

StaleMessage(m) == Bounded(eng["A"], m) /\ EngStaleMessage("A", m) /\ UNCHANGED <<chan, peer>>

StaleClose == EngStaleClose("A") /\ UNCHANGED <<chan, peer>>

StaleError == EngStaleError("A") /\ UNCHANGED <<chan, peer>>

NextSwap ==
  \/ OneClose
  \/ \E w \in {"CONNECTING", "OPEN", "CLOSING", "CLOSED"} : OneSwap(w)
  \/ OneOpen
  \/ OneTransportClose
  \/ OneError
  \/ PeerClose
  \/ PeerCloseAck
  \/ OneClosedTimeout
  \/ StaleOpen
  \/ \E m \in {CloseHeader, CloseAckMsg} : StaleMessage(m)
  \/ StaleClose
  \/ StaleError

SpecSwap == Init /\ [][NextSwap]_vars

(***************************************************************************)
(* Properties.                                                             *)
(***************************************************************************)
IsPrefix(p, q) == Len(p) <= Len(q) /\ SubSeq(q, 1, Len(p)) = p

A == eng["A"]

B == eng["B"]

\* C1 (Spec): while B stays open, the messages handed to B's message
\* callback are a prefix of the messages A's application passed to send(),
\* in send() order, each once and none invented, whenever and wherever the
\* link broke, a break between a DATA header and its body included.
C1_DeliveredIsPrefixOfSent ==
  B.readyState \in {CONNECTING, OPEN} => IsPrefix(B.delivered, A.sentLog)

\* both engines open on the same live link, nothing in flight, no frame
\* half-received, no acknowledgement timer pending
Idle ==
  /\ gen["A"] = gen["B"]
  /\ \A e \in Engines :
       /\ ep[e] = "OPEN"
       /\ eng[e].readyState = OPEN
       /\ chan[e] = <<>>
       /\ eng[e].receivedHeader = <<>>
       /\ ~eng[e].unacknowledgedTimoutTask

\* C2 (Spec): once a transport is established and everything the engines
\* had to say on it has been said, every message A's application passed to
\* send() has reached B's message callback.
C2_SentIsDeliveredWhenIdle ==
  Idle => \A i \in 1..Len(A.sentLog) :
            \E j \in 1..Len(B.delivered) : B.delivered[j] = A.sentLog[i]

\* a message of the remote sender handled by the engine in OPEN
OpenMessageStep == step'.name = "message" /\ A.readyState = OPEN

\* C3 (SpecReceiver): the message callback runs only for the body of a DATA
\* frame whose serial position in the remote stream exceeds processedSerial;
\* a frame at a position already processed invokes no callback and leaves
\* processedSerial unchanged.
C3_ReplayIsIdempotent ==
  [][OpenMessageStep =>
       /\ step'.called # <<>> => peer.hdr /\ peer'.pos > A.processedSerial
       /\ peer'.pos <= A.processedSerial =>
            step'.called = <<>> /\ eng'["A"].processedSerial = A.processedSerial]_vars

\* C4 (SpecSender): the first frame the engine puts on an installed
\* transport is INITIAL_SERIAL, in every readyState of the engine and also
\* when the transport was already OPEN when it was installed.
C4_HandshakeIsFirstFrame ==
  A.first # <<>> => TypeId(A.first) = INITIAL_SERIAL /\ Len(A.first) = 2

\* the open handler ran: on the transport's open event, or synthesized by
\* useWebSocket for a transport that is already OPEN
OpenRan ==
  \/ step'.name = "open"
  \/ step'.name = "useWebSocket" /\ ep'["A"] = "OPEN" /\ A.readyState \in {CONNECTING, OPEN}

ReplayedAll ==
  /\ step'.out = <<InitialSerialMsg(A.bufferLowestSerial)>> \o A.pendingAckMessages
  /\ eng'["A"].pendingAckMessages = A.pendingAckMessages
  /\ eng'["A"].bufferLowestSerial = A.bufferLowestSerial

InRangeAck ==
  /\ step'.name = "message"
  /\ TypeId(step'.rx) = DATA_ACK
  /\ A.bufferLowestSerial <= SerialOf(step'.rx)
  /\ SerialOf(step'.rx) <= A.bufferLowestSerial + Len(A.pendingAckMessages)

C7_BufferAccounting ==
  \A e \in Engines :
    eng[e].bufferLowestSerial + Len(eng[e].pendingAckMessages) = eng[e].appended

\* a DATA_ACK(c) with c below bufferLowestSerial
BelowAck ==
  /\ step'.name = "message"
  /\ TypeId(step'.rx) = DATA_ACK
  /\ SerialOf(step'.rx) < A.bufferLowestSerial

\* C8 (SpecSender): bufferLowestSerial never decreases, and a DATA_ACK
\* below it is rejected as a fatal error that leaves bufferLowestSerial and
\* pendingAckMessages as they were.
C8_LowestNeverDecreases ==
  [][/\ eng'["A"].bufferLowestSerial >= A.bufferLowestSerial
     /\ BelowAck =>
          /\ step'.threw
          /\ eng'["A"].bufferLowestSerial = A.bufferLowestSerial
          /\ eng'["A"].pendingAckMessages = A.pendingAckMessages]_vars

\* C9 (SpecReceiver): processedSerial never decreases, whatever the
\* interleaving of frames, handshakes, transport failures and close calls,
\* and every invocation of the message callback raises it strictly.
C9_ProcessedIsMonotone ==
  [][/\ eng'["A"].processedSerial >= A.processedSerial
     /\ step'.called # <<>> => eng'["A"].processedSerial > A.processedSerial]_vars

\* after a delivery and a handshake that reset receiveSerial, the body of a
\* replayed frame arrived in OPEN and was not delivered again
C9_Witness ==
  /\ step.name = "message"
  /\ step.rx = PeerPayload
  /\ step.called = <<>>
  /\ A.readyState = OPEN
  /\ A.delivered = <<PeerPayload>>
  /\ A.receiveSerial <= A.processedSerial
  /\ A.processedSerial = 2

\* C10 as stated (SpecReceiver): processedSerial <= receiveSerial in every
\* reachable state.
C10_ProcessedAtMostReceived == A.processedSerial <= A.receiveSerial

\* the engine decodes the message as an INITIAL_SERIAL
HandshakeStep ==
  step'.name = "message" /\ EffectiveType(A, step'.rx) = INITIAL_SERIAL

\* C10 amended (SpecReceiver): an INITIAL_SERIAL(n) sets receiveSerial to n
\* and leaves processedSerial as it was, so that n < processedSerial puts
\* receiveSerial below it; every other step keeps processedSerial <=
\* receiveSerial if it held before.
C10_OnlyHandshakeLowersReceived ==
  [][/\ HandshakeStep =>
          /\ eng'["A"].receiveSerial = SerialOf(step'.rx)
          /\ eng'["A"].processedSerial = A.processedSerial
     /\ ~HandshakeStep /\ A.processedSerial <= A.receiveSerial =>
          eng'["A"].processedSerial <= eng'["A"].receiveSerial]_vars

\* INITIAL_SERIAL(0) arrived after a frame was processed
C10_Witness ==
  /\ step.name = "message"
  /\ step.rx = InitialSerialMsg(0)
  /\ step.called = <<>>
  /\ A.receiveSerial = 0
  /\ A.processedSerial = 2

An == eng'["A"]

\* the close events and the error events the application has received
CloseEvents(s) == SelectSeq(s.events, LAMBDA ev : ev.type = "close")

ErrorEvents(s) == SelectSeq(s.events, LAMBDA ev : ev.type = "error")

\* C11 (SpecClose): readyState only moves forward along CONNECTING, OPEN,
\* CLOSING, CLOSED, whatever the application, the transport, the remote end
\* and the timers do; once CLOSED it stays CLOSED.
C11_ReadyStateMovesForward == [][An.readyState >= A.readyState]_vars

\* C12 (SpecClose): over the life of the engine the application receives at
\* most one close event and at most one error event, and an error event is
\* immediately followed by the close event.
C12_AtMostOneCloseEvent ==
  /\ Len(CloseEvents(A)) <= 1
  /\ Len(ErrorEvents(A)) <= 1
  /\ \A i \in 1..Len(A.events) :
       A.events[i].type = "error" =>
         i < Len(A.events) /\ A.events[i + 1].type = "close"

\* C13 (SpecClose): close() while readyState is CLOSING or CLOSED changes
\* nothing: pendingAckMessages, pendingCloseEvent, closeAcknowledged, the
\* closed timer and readyState stay as they were and no frame is sent.
C13_CloseWhileClosingIsNoOp ==
  [][step'.name = "close" /\ A.readyState \in {CLOSING, CLOSED} =>
       /\ An.pendingAckMessages = A.pendingAckMessages
       /\ An.pendingCloseEvent = A.pendingCloseEvent
       /\ An.closeAcknowledged = A.closeAcknowledged
       /\ An.closedTimeoutTask = A.closedTimeoutTask
       /\ An.readyState = A.readyState
       /\ step'.out = <<>>]_vars

\* the engine is CLOSED and the application has its close event
ClosedAndNotified == A.readyState = CLOSED /\ Len(CloseEvents(A)) >= 1

\* C14 (SpecCloseFair): after a local close() the engine eventually reaches
\* CLOSED and delivers its close event, by CLOSE_ACK or by the closed timer,
\* whatever the remote end and the transport do in the meantime, provided
\* armed timers fire.
C14_LocalCloseReachesClosed == (A.closeCalls > 0) ~> ClosedAndNotified

\* a CLOSE_ACK decoded while CLOSING after a local close()
LocalCloseAcked ==
  /\ step'.name = "message"
  /\ EffectiveType(A, step'.rx) = CLOSE_ACK
  /\ A.readyState = CLOSING
  /\ A.pendingCloseEvent # NoEvent

\* C15 (SpecClose): while CLOSING after a local close(code, reason), a
\* CLOSE_ACK moves the engine to CLOSED, cancels the closed timer, delivers
\* exactly one close event, the one of that close() call, and calls close on
\* the installed transport.
C15_CloseAckCloses ==
  [][LocalCloseAcked =>
       /\ An.readyState = CLOSED
       /\ An.closedTimeoutTask = NoEvent
       /\ CloseEvents(An) = Append(CloseEvents(A), A.pendingCloseEvent)
       /\ A.pendingCloseEvent = LocalCloseEvent(DefaultCloseCode)
       /\ ep'["A"] = "CLOSING"]_vars

\* close() on an open transport was answered by CLOSE_ACK
C15_Witness ==
  /\ step.name = "message"
  /\ step.rx = CloseAckMsg
  /\ A.first = InitialSerialMsg(0)
  /\ A.readyState = CLOSED
  /\ A.events = <<OpenEvent, LocalCloseEvent(DefaultCloseCode)>>
  /\ ep["A"] = "CLOSING"

\* C16 (SpecClose): when the closed timer takes the engine to CLOSED after a
\* local close(code, reason), the close event delivered carries that code
\* and reason, whatever happened before the close() call.
C16_TimeoutDeliversLocalClose ==
  [][/\ step'.name = "closedTimeout"
     /\ A.pendingCloseEvent # NoEvent
     /\ A.readyState # CLOSED
     /\ An.readyState = CLOSED
     => An.events[Len(An.events)] = A.pendingCloseEvent]_vars

\* C17 (SpecClose): a CLOSE frame received while OPEN makes the engine send
\* CLOSE_ACK, go directly to CLOSED and deliver one close event, within the
\* handling of that frame.
C17_CloseFrameCloses ==
  [][/\ step'.name = "message"
     /\ EffectiveType(A, step'.rx) = CLOSE
     /\ A.readyState = OPEN
     /\ ep["A"] = "OPEN"
     => /\ step'.out = <<CloseAckMsg>>
        /\ An.readyState = CLOSED
        /\ Len(CloseEvents(An)) = Len(CloseEvents(A)) + 1]_vars

UsableWhileClosing ==
  /\ step'.name = "open" \/ (step'.name = "useWebSocket" /\ ep'["A"] = "OPEN")
  /\ A.readyState = CLOSING
  /\ A.pendingCloseEvent # NoEvent

\* C19 (SpecClose): a transport installed while the engine is CLOSING after
\* a local close(), opening later or already OPEN, gets INITIAL_SERIAL and
\* then the pending frames, the CLOSE header among them.
C19_ClosingReplaysClose ==
  [][UsableWhileClosing =>
       /\ step'.out = <<InitialSerialMsg(A.bufferLowestSerial)>> \o A.pendingAckMessages
       /\ \E i \in 1..Len(step'.out) : step'.out[i] = CloseHeader]_vars

\* the transport's close event while CONNECTING or OPEN
TransportLost == step'.name = "transportClose" /\ A.readyState \in {CONNECTING, OPEN}

\* the open handler runs while the engine waits for a reconnection
Reconnected == OpenRan /\ A.readyState \in {CONNECTING, OPEN}

\* C20 (SpecClose): a transport close while CONNECTING or OPEN leaves
\* readyState, pendingAckMessages and the serials unchanged, delivers no
\* event and arms the closed timer unless one is armed; when a transport
\* opens before the timer fires the timer is cancelled, so that no close
\* event is delivered for the failure, and an engine that was OPEN gets no
\* second open event.
C20_TransportCloseAwaitsReconnect ==
  [][/\ TransportLost =>
          /\ An.readyState = A.readyState
          /\ An.pendingAckMessages = A.pendingAckMessages
          /\ An.receiveSerial = A.receiveSerial
          /\ An.processedSerial = A.processedSerial
          /\ An.bufferLowestSerial = A.bufferLowestSerial
          /\ An.events = A.events
          /\ An.closedTimeoutTask =
               IF A.closedTimeoutTask = NoEvent THEN TransportCloseEvent
               ELSE A.closedTimeoutTask
     /\ Reconnected =>
          /\ An.closedTimeoutTask = NoEvent
          /\ An.readyState = OPEN
          /\ An.events = IF A.readyState = OPEN THEN A.events
                         ELSE Append(A.events, OpenEvent)]_vars

\* the transport of an OPEN engine closed: still OPEN, the timer runs, the
\* application has seen nothing but the open event
C20_Witness ==
  /\ step.name = "transportClose"
  /\ A.readyState = OPEN
  /\ A.events = <<OpenEvent>>
  /\ A.closedTimeoutTask = TransportCloseEvent
  /\ ep["A"] = "CLOSED"

\* C21 (SpecClose): when the closed timer armed by a transport close fires
\* while the engine is still CONNECTING or OPEN, the engine becomes CLOSED
\* and the application has exactly one close event, the transport's; a
\* transport installed or opening while the engine is CLOSED delivers no
\* event and leaves it CLOSED.
C21_TimeoutClosesOnce ==
  [][/\ step'.name = "closedTimeout" /\ A.readyState \in {CONNECTING, OPEN} =>
          /\ An.readyState = CLOSED
          /\ An.closedTimeoutTask = NoEvent
          /\ CloseEvents(An) = <<TransportCloseEvent>>
     /\ step'.name \in {"useWebSocket", "open"} /\ A.readyState = CLOSED =>
          /\ An.readyState = CLOSED
          /\ An.events = A.events]_vars

\* the only transport failed before it opened, the timer closed the engine,
\* and a second transport has now opened: still one event, still CLOSED
C21_Witness ==
  /\ step.name = "open"
  /\ step.out = <<InitialSerialMsg(0)>>
  /\ ep["A"] = "OPEN"
  /\ A.readyState = CLOSED
  /\ A.events = <<TransportCloseEvent>>

\* a transport becomes OPEN: its open event, or a transport installed OPEN
TransportOpens == step'.name = "open" \/ (step'.name = "useWebSocket" /\ ep'["A"] = "OPEN")

\* C22 (SpecClose): when a transport becomes OPEN a running closed timer is
\* cancelled if readyState is not CLOSING and keeps running, with the event
\* it captured, if readyState is CLOSING; no timer is armed by the step.
C22_OpenCancelsUnlessClosing ==
  [][TransportOpens =>
       An.closedTimeoutTask =
         IF A.readyState = CLOSING THEN A.closedTimeoutTask ELSE NoEvent]_vars

\* close() armed the timer and a transport has opened since: the timer of
\* the close() call is still running
C22_Witness ==
  /\ step.name = "open"
  /\ A.readyState = CLOSING
  /\ A.closedTimeoutTask = LocalCloseEvent(DefaultCloseCode)
  /\ step.out = <<InitialSerialMsg(0), CloseHeader>>

\* the engine decodes the message as the body of a DATA frame
DataBodyStep ==
  /\ step'.name = "message"
  /\ A.receivedHeader # <<>>
  /\ TypeId(A.receivedHeader) = DATA

C24_AckCountsFrames ==
  [][/\ \A i \in 1..Len(step'.out) :
          TypeId(step'.out[i]) = DATA_ACK => step'.out[i] = DataAckMsg(An.processedSerial)
     /\ step'.name = "message" /\ peer.hdr /\ ~peer'.hdr /\ step'.called # <<>> =>
          An.processedSerial = peer'.pos]_vars

\* bodies of DATA frames were processed since the last DATA_ACK was sent
AckOwed == A.unacknowledgedMessages > 0

\* C25 (SpecReceiverFair): when the body of a DATA frame has been processed
\* the engine eventually sends a DATA_ACK that covers it, on the threshold
\* or on the acknowledgement timer, in every run in which the installed
\* transport is OPEN from some point on, whether or not more DATA arrives
\* and wherever the transport was when the timer fired.  A run in which the
\* transport is not OPEN again and again is outside the claim.
C25_BodyIsAcknowledged == AckOwed ~> (~AckOwed \/ ep["A"] # "OPEN")

\* C26 (SpecReceiver): the acknowledgement timer becomes armed only in the
\* handling of the body of a DATA frame while readyState is OPEN; a body
\* handled in CONNECTING, CLOSING or CLOSED does not arm it.
C26_TimerArmedOnlyWhenOpen ==
  [][~A.unacknowledgedTimoutTask /\ An.unacknowledgedTimoutTask =>
       DataBodyStep /\ A.readyState = OPEN]_vars

\* C27 (SpecClose): a transport error event, in every readyState, sets
\* pendingErrorEvent and changes no other field of the engine: readyState,
\* pendingAckMessages, the serials and both timers stay as they were,
\* nothing is sent and no callback runs.  An error event reaches the
\* application only in a step that takes the engine to CLOSED, and the
\* close event of that step follows it.
C27_ErrorIsDeferred ==
  [][/\ step'.name = "error" =>
          /\ An = [A EXCEPT !.pendingErrorEvent = TRUE]
          /\ step'.out = <<>>
          /\ step'.called = <<>>
          /\ ep' = ep
     /\ ErrorEvents(An) # ErrorEvents(A) =>
          /\ A.readyState # CLOSED
          /\ An.readyState = CLOSED
          /\ An.events = A.events \o <<ErrorEvent, An.events[Len(An.events)]>>
          /\ An.events[Len(An.events)].type = "close"]_vars

\* the transport of an open engine reported an error and then closed, and
\* the closed timer has delivered the error followed by the close event
C27_Witness ==
  /\ step.name = "closedTimeout"
  /\ A.readyState = CLOSED
  /\ A.pendingErrorEvent
  /\ A.events = <<OpenEvent, ErrorEvent, TransportCloseEvent>>

\* an event of the transport that was replaced
StaleStep == step'.name \in {"staleOpen", "staleMessage", "staleClose", "staleError"}

\* C28 (SpecSwap): once useWebSocket has put a transport in the place of
\* another, no open, message, close or error event of the replaced transport
\* changes the engine, sends a frame, touches the installed transport or
\* runs a callback of the application.
C28_ReplacedTransportIsSilent ==
  [][StaleStep =>
       /\ [An EXCEPT !.replaced = A.replaced] = A
       /\ step'.out = <<>>
       /\ step'.called = <<>>
       /\ ep' = ep]_vars

\* a CLOSE_ACK is decoded while close() was never called
StrayCloseAck ==
  /\ step'.name \in {"message", "staleMessage"}
  /\ EffectiveType(A, step'.rx) = CLOSE_ACK
  /\ A.pendingCloseEvent = NoEvent

\* C29 (SpecSwap): in every readyState of the engine, useWebSocket with a
\* transport that is CLOSED or CLOSING throws and sends nothing, and a
\* CLOSE_ACK decoded while no close() is pending throws, leaves readyState
\* as it was and delivers no event.
C29_MisuseThrows ==
  [][/\ step'.name = "useWebSocket" /\ ep'["A"] \in {"CLOSED", "CLOSING"} =>
          /\ step'.threw
          /\ step'.out = <<>>
     /\ StrayCloseAck =>
          /\ step'.threw
          /\ An.readyState = A.readyState
          /\ An.events = A.events]_vars

\* the engine is open, close() was never called, and the CLOSE_ACK that
\* just arrived was refused
C29_Witness ==
  /\ step.name = "message"
  /\ step.rx = CloseAckMsg
  /\ step.threw
  /\ A.readyState = OPEN
  /\ A.closeCalls = 0
  /\ A.events = <<OpenEvent>>

\* a message that is the body of a DATA frame of A's application
IsBody(m) == \E k \in 0..(MaxSend - 1) : m = Payload("A", k)

\* in a run of messages every DATA header is followed at once by a body and
\* every body comes right after a DATA header
WellFramed(q) ==
  \A i \in 1..Len(q) :
    /\ q[i] = DataHeader => i < Len(q) /\ IsBody(q[i + 1])
    /\ IsBody(q[i]) => i > 1 /\ q[i - 1] = DataHeader

\* C30 (SpecLink): what a handler of A puts on the transport, in send() and in
\* every replay, before and after DATA_ACKs of B have trimmed
\* pendingAckMessages, has each DATA header followed at once by its body
\* and no body without its header; a handler runs to completion, so the
\* messages on a transport are the handlers' runs one after the other.
C30_HeaderThenBody == step.e = "A" => WellFramed(step.out)

(***************************************************************************)
(* SpecInbound: one engine, A, and a remote end that is past its handshake *)
(* and is not trusted to frame its messages.  The installed transport      *)
(* delivers any message of InboundMsgs at any time while it is open: CLOSE,*)
(* CLOSE_ACK, a DATA header, a payload, and a message whose tag is none of *)
(* the five.  A message that arrives while a DATA header is pending is     *)
(* that frame's body, so each of these is also a payload; TagLikeBodies    *)
(* are the payloads that read as the two remaining control frames.         *)
(***************************************************************************)
UnknownMsg == <<9>>

InboundMsgs == {CloseHeader, CloseAckMsg, DataHeader, PeerPayload, UnknownMsg}

TagLikeBodies == {InitialSerialMsg(0), DataAckMsg(2)}

\* the frames the remote end may still begin
MaxInbound == 3

Inbound(m) == eng["A"].receiveSerial < MaxInbound /\ OneFrame(m) /\ UNCHANGED peer

\* the body of a DATA frame whose header has arrived
InboundBody(m) == eng["A"].receivedHeader = DataHeader /\ Inbound(m)

NextInbound ==
  \/ OneSend
  \/ OneClose
  \/ \E w \in {"CONNECTING", "OPEN"} : OneUse(w)
  \/ OneOpen
  \/ \E m \in InboundMsgs : Inbound(m)
  \/ \E m \in TagLikeBodies : InboundBody(m)

SpecInbound == Init /\ [][NextInbound]_vars

(***************************************************************************)
(* SpecFactory: one engine, A, constructed with config.webSocketFactory.   *)
(* The constructor installs the factory's first transport; each reconnect  *)
(* the close handler schedules is a timer task that constructs a transport *)
(* and installs it when it fires.  A transport the factory returns has     *)
(* just been constructed and is CONNECTING.                                *)
(***************************************************************************)
\* reconnect tasks scheduled and not yet run
MaxReconnect == 2

InitFactory ==
  /\ eng = [e \in Engines |->
              IF e = "A" THEN Begin(useWebSocket([InitEngine EXCEPT !.factory = TRUE], "CONNECTING"))
              ELSE InitEngine]
  /\ ep = [e \in Engines |-> IF e = "A" THEN "CONNECTING" ELSE "NONE"]
  /\ gen = [e \in Engines |-> 0]
  /\ chan = [e \in Engines |-> <<>>]
  /\ step = NoStep
  /\ peer = PeerInit

\* () => this.useWebSocket(webSocketFactory())
EngReconnect(e) ==
  /\ eng[e].reconnectTasks > 0
  /\ ep' = [ep EXCEPT ![e] = "CONNECTING"]
  /\ Commit(e, "reconnect", <<>>,
            useWebSocket([eng[e] EXCEPT !.reconnectTasks = @ - 1], "CONNECTING"))
  /\ UNCHANGED gen

OneReconnect == EngReconnect("A") /\ UNCHANGED <<chan, peer>>

FactoryTransportClose == eng["A"].reconnectTasks < MaxReconnect /\ OneTransportClose

NextFactory ==
  \/ OneClose
  \/ OneOpen
  \/ FactoryTransportClose
  \/ OneError
  \/ PeerClose
  \/ PeerCloseAck
  \/ OneClosedTimeout
  \/ OneReconnect

SpecFactory == InitFactory /\ [][NextFactory]_vars

\* the remote sender's INITIAL_SERIAL arrives, first message of the transport
FirstMessageIsHandshake == step'.name = "message" /\ ~peer.synced /\ peer'.synced

\* C31 (SpecReceiver): the INITIAL_SERIAL(n) that arrives first on a newly
\* installed transport sets receiveSerial to n and reaches no message
\* callback, whatever was received on earlier transports, a DATA header
\* whose body never came included.
C31_HandshakeResetsReceiveSerial ==
  [][FirstMessageIsHandshake =>
       /\ An.receiveSerial = SerialOf(step'.rx)
       /\ step'.called = <<>>]_vars

\* C32 (SpecInbound): after every inbound message receivedHeader is set
\* exactly when that message was a DATA header, whose body is still to
\* come: a header-only frame, a completed DATA body and a message with an
\* unrecognised tag leave it unset.
C32_HeaderPendingOnlyForData ==
  [][step'.name = "message" =>
       (An.receivedHeader # <<>> <=> (A.receivedHeader = <<>> /\ step'.rx = DataHeader))]_vars

\* C33 (SpecReceiver): processedSerial moves only in a step that hands a
\* message to the message callback; a DATA frame completed while readyState
\* is not OPEN leaves it where it was.
C33_ProcessedOnlyWithDelivery ==
  [][An.processedSerial # A.processedSerial => step'.called # <<>>]_vars

\* the engine decodes the message as a CLOSE
CloseFrameStep == step'.name = "message" /\ EffectiveType(A, step'.rx) = CLOSE

\* a CLOSE_ACK is buffered
HoldsCloseAck(s) == \E i \in 1..Len(s.pendingAckMessages) : s.pendingAckMessages[i] = CloseAckMsg

\* C34 (SpecClose): a received CLOSE appends CLOSE_ACK to
\* pendingAckMessages, sends it when the transport is OPEN, leaves no closed
\* timer running and takes readyState to CLOSING; the CLOSE_ACK stays
\* buffered, and each time a transport becomes OPEN afterwards it is emitted
\* again, behind INITIAL_SERIAL.
C34_CloseAckIsKeptAndReplayed ==
  [][/\ CloseFrameStep =>
          /\ An.pendingAckMessages = A.pendingAckMessages \o <<CloseAckMsg>>
          /\ step'.out = IF ep["A"] = "OPEN" THEN <<CloseAckMsg>> ELSE <<>>
          /\ An.closedTimeoutTask = NoEvent
          /\ An.readyState = CLOSING
     /\ HoldsCloseAck(A) => HoldsCloseAck(An)
     /\ TransportOpens /\ HoldsCloseAck(A) =>
          /\ step'.out = <<InitialSerialMsg(A.bufferLowestSerial)>> \o A.pendingAckMessages]_vars

\* C35 (SpecFactory): with a webSocketFactory configured a reconnect is
\* scheduled only by a transport close event that finds readyState other
\* than CLOSED, and no reconnect constructs and installs a transport once
\* readyState is CLOSED, those scheduled before it became CLOSED included.
C35_NoReconnectOnceClosed ==
  [][/\ An.reconnectTasks > A.reconnectTasks =>
          step'.name = "transportClose" /\ A.readyState # CLOSED
     /\ step'.name = "reconnect" => A.readyState # CLOSED]_vars

\* the open events the application has received
OpenEvents(s) == SelectSeq(s.events, LAMBDA ev : ev.type = "open")

\* the open handler runs for the first time
FirstOpen == OpenRan /\ A.readyState = CONNECTING

\* C36 (SpecClose): the open event is delivered once, in the step in which
\* the open handler finds readyState CONNECTING and sets it to OPEN; no other
\* step delivers one, readyState never returns to CONNECTING, and an engine
\* that close() took out of CONNECTING before a transport opened never
\* delivers one.
C36_OpenEventOnce ==
  [][/\ FirstOpen =>
          /\ An.events = A.events \o <<OpenEvent>>
          /\ An.readyState = OPEN
     /\ ~FirstOpen => OpenEvents(An) = OpenEvents(A)
     /\ Len(OpenEvents(An)) <= 1
     /\ A.readyState # CONNECTING => An.readyState # CONNECTING
     /\ A.readyState = CONNECTING => OpenEvents(A) = <<>>]_vars

\* the engine opened, close() was called, and a transport installed
\* afterwards has opened without a second open event
C36_Witness ==
  /\ step.name = "open"
  /\ A.readyState = CLOSING
  /\ A.closeCalls = 1
  /\ A.events = <<OpenEvent>>

\* C37 (SpecInbound): the message that arrives while a DATA header is
\* pending is the frame's body whatever its bytes are, a control frame's
\* included: it advances receiveSerial by one, completes the frame, leaves
\* bufferLowestSerial, pendingAckMessages and readyState alone, emits at
\* most a DATA_ACK, and when it is delivered the callback gets the message
\* as it arrived.
C37_BodyIsOpaque ==
  [][DataBodyStep =>
       /\ ~step'.threw
       /\ An.receiveSerial = A.receiveSerial + 1
       /\ An.receivedHeader = <<>>
       /\ An.bufferLowestSerial = A.bufferLowestSerial
       /\ An.pendingAckMessages = A.pendingAckMessages
       /\ An.readyState = A.readyState
       /\ An.closeAcknowledged = A.closeAcknowledged
       /\ An.events = A.events
       /\ step'.out \in {<<>>, <<DataAckMsg(An.processedSerial)>>}
       /\ step'.called =
            IF A.readyState = OPEN /\ A.receiveSerial + 1 > A.processedSerial
              THEN <<step'.rx>> ELSE <<>>]_vars

\* a payload that reads as DATA_ACK(2) was handed to the application while
\* two entries waited in the buffer, and the buffer is as it was
C37_Witness ==
  /\ step.name = "message"
  /\ step.rx = DataAckMsg(2)
  /\ step.called = <<DataAckMsg(2)>>
  /\ Len(A.pendingAckMessages) = 2
  /\ A.bufferLowestSerial = 0

\* C38 (SpecInbound): the message callbacks run only in a step that finds
\* readyState OPEN and leaves it OPEN: the open event has been delivered,
\* close() has not been called, no CLOSE has been received and no close
\* event delivered.
C38_DeliveryOnlyWhenOpen ==
  [][step'.called # <<>> =>
       /\ A.readyState = OPEN
       /\ An.readyState = OPEN
       /\ OpenEvents(A) = <<OpenEvent>>
       /\ A.closeCalls = 0
       /\ ~HoldsCloseAck(A)
       /\ CloseEvents(A) = <<>>]_vars

\* a CLOSE was received and the DATA frame that followed it was completed
\* without reaching the application
C38_Witness ==
  /\ step.name = "message"
  /\ step.rx = PeerPayload
  /\ step.called = <<>>
  /\ A.readyState = CLOSING
  /\ HoldsCloseAck(A)
  /\ A.receivedHeader = <<>>
  /\ A.unacknowledgedMessages = 1
  /\ A.delivered = <<>>

\* C39 (SpecSwap): an operation that throws leaves the engine as it found
\* it: after a rejected useWebSocket the transport installed before is
\* still installed, with the engine's listeners on it, and after a rejected
\* CLOSE_ACK receiveSerial, closeAcknowledged and receivedHeader are what
\* they were.
C39_FailureChangesNothing ==
  [][step'.threw =>
       /\ ep'["A"] = ep["A"]
       /\ An.attached = A.attached
       /\ An.receiveSerial = A.receiveSerial
       /\ An.closeAcknowledged = A.closeAcknowledged
       /\ An.receivedHeader = A.receivedHeader]_vars

\* the handler that ran is one that may call closeInternal: the transport's
\* close handler, the closed timer's callback, or the CLOSE_ACK branch with
\* a close() pending
MayCloseInternal ==
  \/ step'.name \in {"transportClose", "staleClose", "closedTimeout"}
  \/ /\ step'.name \in {"message", "staleMessage"}
     /\ EffectiveType(A, step'.rx) = CLOSE_ACK
     /\ A.pendingCloseEvent # NoEvent

\* C40 (SpecClose): closeInternal never throws 'Ready state must be CLOSING
\* before transitioning to CLOSED': no handler that calls it throws, and
\* pendingCloseEvent is set only while readyState is CLOSING or CLOSED.
C40_CloseInternalNeverThrows ==
  [][/\ MayCloseInternal => ~step'.threw
     /\ An.pendingCloseEvent # NoEvent => An.readyState \in {CLOSING, CLOSED}]_vars

\* the closed timer, armed by a transport failure while the engine was
\* CONNECTING or OPEN, has fired and closed the engine
C40_Witness ==
  /\ step.name = "closedTimeout"
  /\ ~step.threw
  /\ A.readyState = CLOSED
  /\ A.closeCalls = 0
  /\ CloseEvents(A) = <<TransportCloseEvent>>

====
